---- MODULE Spec2Model ----
(***************************************************************************)
(* A model of magma's signal handling (src/engine/context/signal.c):       *)
(* the registration of the handlers (signal_start, signal_thread_start),   *)
(* the delivery of signals by the kernel under the registered              *)
(* dispositions, and the four handlers (signal_segfault, signal_shutdown,  *)
(* signal_status, signal_refresh) as interleaved, interruptible steps.     *)
(*                                                                         *)
(* Time is not modelled: nanosleep() orders nothing between threads (it    *)
(* only delays its caller, and returns early when a signal interrupts      *)
(* it), so the sleeps of signal_shutdown are folded into the steps that    *)
(* precede them.                                                           *)
(***************************************************************************)
EXTENDS Integers, Sequences, FiniteSets, TLC

(* Bounds of the model. *)
NumWorkers == 1
MaxDeliveries == 2
MaxShutdowns == 2

(***************************************************************************)
(* Signals, threads, dispositions.                                         *)
(***************************************************************************)
Termination == {"SIGINT", "SIGQUIT", "SIGTERM"}
Fatal == {"SIGSEGV", "SIGFPE", "SIGBUS", "SIGSYS", "SIGABRT"}
Signals == Termination \cup Fatal \cup {"SIGPIPE", "SIGHUP", "SIGALRM"}

Main == <<"main", 0>>
Workers == {<<"worker", i>> : i \in 1..NumWorkers}
Helpers == {<<"helper", i>> : i \in 1..MaxShutdowns}
Threads == {Main} \cup Workers \cup Helpers

(* A struct sigaction: the handler, the SA_RESETHAND flag, the sa_mask. *)
Sigaction(handler, resethand) == [h |-> handler, oneshot |-> resethand, mask |-> {}]

(* The disposition every signal has when the process starts. *)
SigDfl == Sigaction("SIG_DFL", FALSE)

(* struct sigaction clear of signal_segfault. *)
clear == Sigaction("SIG_DFL", FALSE)

(* A variant of it with SA_RESETHAND set. *)
status_action_oneshot == Sigaction("signal_status", TRUE)

(* struct sigaction status of signal_thread_start. *)
status_action == Sigaction("signal_status", FALSE)

(* The four struct sigaction of signal_start: normal, ignored, segfault, hup. *)
(* Variants of the structs: SIGPIPE left at its default, the fatal        *)
(* signals without SA_RESETHAND, SIGHUP bound to the shutdown handler.     *)
ignored_default == Sigaction("SIG_DFL", FALSE)

segfault_noreset == Sigaction("signal_segfault", FALSE)

hup_shutdown == Sigaction("signal_shutdown", FALSE)

normal == Sigaction("signal_shutdown", FALSE)

ignored == Sigaction("SIG_IGN", FALSE)

segfault == Sigaction("signal_segfault", TRUE)

hup == Sigaction("signal_refresh", FALSE)

(* The registration calls of signal_start, in the order the four          *)
(* short-circuit conditions evaluate them.                                 *)
StartCalls ==
  << [fn |-> "sigemptyset", sig |-> "none",    act |-> normal],
     [fn |-> "sigaction",   sig |-> "SIGINT",  act |-> normal],
     [fn |-> "sigaction",   sig |-> "SIGQUIT", act |-> normal],
     [fn |-> "sigaction",   sig |-> "SIGTERM", act |-> normal],
     [fn |-> "sigemptyset", sig |-> "none",    act |-> ignored],
     [fn |-> "sigaction",   sig |-> "SIGPIPE", act |-> ignored],
     [fn |-> "sigemptyset", sig |-> "none",    act |-> segfault],
     [fn |-> "sigaction",   sig |-> "SIGSEGV", act |-> segfault],
     [fn |-> "sigaction",   sig |-> "SIGFPE",  act |-> segfault],
     [fn |-> "sigaction",   sig |-> "SIGBUS",  act |-> segfault],
     [fn |-> "sigaction",   sig |-> "SIGSYS",  act |-> segfault],
     [fn |-> "sigaction",   sig |-> "SIGABRT", act |-> segfault],
     [fn |-> "sigemptyset", sig |-> "none",    act |-> hup],
     [fn |-> "sigaction",   sig |-> "SIGHUP",  act |-> hup] >>

(***************************************************************************)
(* State.                                                                  *)
(***************************************************************************)
VARIABLES
  disp,           \* the process's signal disposition table
  alive,          \* FALSE once the process has been terminated
  status,         \* the process status that status() reads
  status_lock,    \* the owner of the lock the status update awaits, or <<"none", 0>>
  thr,            \* the life cycle of each thread
  tmask,          \* the signal mask each thread started with
  stack,          \* per thread, the handler activations it is running
  reg,            \* per caller, the calls and the result of its registration function
  sig_hup_mutex,  \* the owner of sig_hup_mutex, or <<"none", 0>>
  inv,            \* history: per helper, the events of the shutdown that launched it
  last,           \* history: the last step taken and the line it logged
  count           \* history: how often each operation has been invoked

vars == <<disp, alive, status, status_lock, thr, tmask, stack, reg,
          sig_hup_mutex, inv, last, count>>

NoThread == <<"none", 0>>

(* An activation of a handler: the handler, the signal it was entered    *)
(* for, the statement it is at, its status_thread (signal_shutdown), the   *)
(* calls of http_content_refresh it has made (signal_refresh) and the      *)
(* status it was entered under (signal_status).                            *)
Frame(fn, sig, pc, at) ==
  [fn |-> fn, sig |-> sig, pc |-> pc, h |-> NoThread, calls |-> 0, at |-> at]

Step(op, sig, log) == [op |-> op, sig |-> sig, log |-> log]

(* A step that neither delivers a signal nor reaches a logging statement. *)
Quiet == Step("step", "none", "none")

Depth(t) == Len(stack[t])
Top(t) == stack[t][Depth(t)]
Push(t, f) == [stack EXCEPT ![t] = Append(@, f)]
Pop(t) == [stack EXCEPT ![t] = SubSeq(@, 1, Len(@) - 1)]
SetTop(t, f) == [stack EXCEPT ![t] = [@ EXCEPT ![Len(@)] = f]]

Running(t, fn, pc) ==
  /\ alive
  /\ Depth(t) > 0
  /\ Top(t).fn = fn
  /\ Top(t).pc = pc

(* The threads a signal sent to the process can be delivered to: those   *)
(* that have started and not exited.                                       *)
Live(t) == thr[t] = "running"

(* The signals a thread blocks: the mask it started with and, sa_flags    *)
(* holding no SA_NODEFER and every sa_mask being empty, the signal of each *)
(* handler it is running.                                                  *)
Blocked(t) == tmask[t] \cup {stack[t][i].sig : i \in 1..Depth(t)}

(* A registration function that has not been called, or has not returned. *)
NotCalled == [ret |-> "none", made |-> << >>]

Init ==
  /\ disp = [s \in Signals |-> SigDfl]
  /\ alive = TRUE
  /\ status = "Running"
  /\ status_lock = NoThread
  /\ thr = [t \in Threads |-> IF t = Main THEN "running" ELSE "unborn"]
  /\ tmask = [t \in Threads |-> {}]
  /\ stack = [t \in Threads |-> << >>]
  /\ reg = [t \in {Main} \cup Workers |-> NotCalled]
  /\ sig_hup_mutex = NoThread
  /\ inv = [h \in Helpers |-> << >>]
  /\ last = Quiet
  /\ count = [deliv |-> 0, shutdown |-> 0, failed |-> 0]

(* A variant of signal_start that logs a failed call and goes on to the   *)
(* next one.                                                               *)
signal_start_goes_on(ok) ==
  /\ alive
  /\ reg[Main].ret = "none"
  /\ Depth(Main) = 0
  /\ LET pc == Len(reg[Main].made) + 1
         call == StartCalls[pc]
     IN  /\ disp' = IF ok /\ call.fn = "sigaction"
                      THEN [disp EXCEPT ![call.sig] = call.act]
                      ELSE disp
         /\ reg' = [reg EXCEPT ![Main] =
                      [ret |-> IF pc = Len(StartCalls) THEN "true" ELSE "none",
                       made |-> Append(@.made, ok)]]
         /\ last' = Step("signal_start", call.sig, IF ok THEN "none" ELSE "info")
  /\ UNCHANGED <<alive, status, thr, stack, sig_hup_mutex, inv, count, tmask, status_lock>>

(* A variant of signal_start that restores the defaults when a call fails. *)
signal_start_rolls_back(ok) ==
  /\ alive
  /\ reg[Main].ret = "none"
  /\ Depth(Main) = 0
  /\ LET pc == Len(reg[Main].made) + 1
         call == StartCalls[pc]
     IN  IF ok
           THEN /\ disp' = IF call.fn = "sigaction"
                             THEN [disp EXCEPT ![call.sig] = call.act]
                             ELSE disp
                /\ reg' = [reg EXCEPT ![Main] =
                             [ret |-> IF pc = Len(StartCalls) THEN "true" ELSE "none",
                              made |-> Append(@.made, TRUE)]]
                /\ last' = Step("signal_start", call.sig, "none")
           ELSE /\ disp' = [s \in Signals |-> SigDfl]
                /\ reg' = [reg EXCEPT ![Main] =
                             [ret |-> "false", made |-> Append(@.made, FALSE)]]
                /\ last' = Step("signal_start", call.sig, "info")
  /\ UNCHANGED <<alive, status, thr, stack, sig_hup_mutex, inv, count, tmask, status_lock>>

(***************************************************************************)
(* signal_start, one registration call per step, on the main thread: ok    *)
(* is the result of the call (0 is success). The first call that fails     *)
(* ends the function, which logs and returns false.                        *)
(***************************************************************************)
signal_start(ok) ==
  /\ alive
  /\ reg[Main].ret = "none"
  /\ Depth(Main) = 0
  /\ LET pc == Len(reg[Main].made) + 1
         call == StartCalls[pc]
     IN  IF ok
           THEN /\ disp' = IF call.fn = "sigaction"
                             THEN [disp EXCEPT ![call.sig] = call.act]
                             ELSE disp
                /\ reg' = [reg EXCEPT ![Main] =
                             [ret |-> IF pc = Len(StartCalls) THEN "true" ELSE "none",
                              made |-> Append(@.made, TRUE)]]
                /\ last' = Step("signal_start", call.sig, "none")
           ELSE /\ disp' = disp
                /\ reg' = [reg EXCEPT ![Main] =
                             [ret |-> "false", made |-> Append(@.made, FALSE)]]
                /\ last' = Step("signal_start", call.sig, "info")
  /\ UNCHANGED <<alive, status, thr, stack, sig_hup_mutex, inv, count, tmask, status_lock>>

(* The daemon starts a worker thread once signal_start has succeeded. *)
worker_start(w) ==
  /\ alive
  /\ reg[Main].ret = "true"
  /\ thr[w] = "unborn"
  /\ thr' = [thr EXCEPT ![w] = "running"]
  /\ last' = Quiet
  /\ UNCHANGED <<disp, alive, status, stack, reg, sig_hup_mutex, inv, count, tmask, status_lock>>

(* A variant of signal_thread_start that reports success without          *)
(* installing the handler.                                                 *)
signal_thread_start_skip(t, okEmpty, okAction) ==
  /\ alive
  /\ thr[t] = "running"
  /\ reg[t].ret = "none"
  /\ Depth(t) = 0
  /\ disp' = disp
  /\ reg' = [reg EXCEPT ![t] = [ret |-> "true", made |-> <<TRUE, TRUE>>]]
  /\ last' = Step("signal_thread_start", "SIGALRM", "none")
  /\ UNCHANGED <<alive, status, thr, stack, sig_hup_mutex, inv, count, tmask, status_lock>>

(***************************************************************************)
(* signal_thread_start, called by a worker when it starts: okEmpty and     *)
(* okAction are the results of sigemptyset and of sigaction(SIGALRM), the  *)
(* second evaluated only if the first succeeded.                           *)
(***************************************************************************)
signal_thread_start(t, okEmpty, okAction) ==
  /\ alive
  /\ thr[t] = "running"
  /\ reg[t].ret = "none"
  /\ Depth(t) = 0
  /\ IF okEmpty /\ okAction
       THEN /\ disp' = [disp EXCEPT !["SIGALRM"] = status_action]
            /\ reg' = [reg EXCEPT ![t] = [ret |-> "true", made |-> <<TRUE, TRUE>>]]
            /\ last' = Step("signal_thread_start", "SIGALRM", "none")
       ELSE /\ disp' = disp
            /\ reg' = [reg EXCEPT ![t] =
                         [ret |-> "false",
                          made |-> IF okEmpty THEN <<TRUE, FALSE>> ELSE <<FALSE>>]]
            /\ last' = Step("signal_thread_start", "SIGALRM", "info")
  /\ UNCHANGED <<alive, status, thr, stack, sig_hup_mutex, inv, count, tmask, status_lock>>

(***************************************************************************)
(* Delivery of a signal s to a thread t that does not block it, under the  *)
(* disposition of s.                                                       *)
(***************************************************************************)
(* The first statement of each handler. *)
Entry(handler) ==
  CASE handler = "signal_segfault" -> "log"
    [] handler = "signal_shutdown" -> "log"
    [] handler = "signal_status" -> "status"
    [] handler = "signal_refresh" -> "lock"

(* A new activation of a handler for the signal s. *)
Activation(handler, s) ==
  Frame(handler, s, Entry(handler), IF handler = "signal_status" THEN status ELSE "none")

(* A variant of the kernel's entry to a handler that ignores SA_RESETHAND. *)
OnEntry_keeps(d, s) == d

(* The table after s has been delivered to a handler: SA_RESETHAND        *)
(* returns s to the default disposition on entry to the handler.           *)
OnEntry(d, s) == IF d[s].oneshot THEN [d EXCEPT ![s] = SigDfl] ELSE d

CanDeliver(t, s) ==
  /\ alive
  /\ reg[Main].ret # "false"
  /\ count.deliv < MaxDeliveries
  /\ Live(t)
  /\ s \notin Blocked(t)

(* SIG_IGN: the signal is discarded. *)
DeliverIgnored(t, s) ==
  /\ CanDeliver(t, s)
  /\ disp[s].h = "SIG_IGN"
  /\ count' = [count EXCEPT !.deliv = @ + 1]
  /\ last' = Step("ignored", s, "none")
  /\ UNCHANGED <<disp, alive, status, thr, stack, reg, sig_hup_mutex, inv, tmask, status_lock>>

(* SIG_DFL: the default action of every signal of Signals terminates the  *)
(* process.                                                                *)
DeliverDefault(t, s) ==
  /\ CanDeliver(t, s)
  /\ disp[s].h = "SIG_DFL"
  /\ alive' = FALSE
  /\ count' = [count EXCEPT !.deliv = @ + 1]
  /\ last' = Step("default", s, "none")
  /\ UNCHANGED <<disp, status, thr, stack, reg, sig_hup_mutex, inv, tmask, status_lock>>

(* A handler: t starts an activation of it on top of what it was doing. *)
DeliverHandler(t, s) ==
  /\ CanDeliver(t, s)
  /\ disp[s].h \notin {"SIG_IGN", "SIG_DFL"}
  /\ disp[s].h = "signal_shutdown" => count.shutdown < MaxShutdowns
  /\ stack' = Push(t, Activation(disp[s].h, s))
  /\ disp' = OnEntry(disp, s)
  /\ count' = [count EXCEPT
                  !.deliv = @ + 1,
                  !.shutdown = IF disp[s].h = "signal_shutdown" THEN @ + 1 ELSE @]
  /\ last' = Step("handler", s, "none")
  /\ UNCHANGED <<alive, status, thr, reg, sig_hup_mutex, inv, tmask, status_lock>>

(* A fault (a fatal signal raised by the thread's own instruction) while  *)
(* the thread blocks that signal: the kernel forces the default action.    *)
ForcedFault(t, s) ==
  /\ alive
  /\ reg[Main].ret # "false"
  /\ count.deliv < MaxDeliveries
  /\ Live(t)
  /\ s \in Fatal \cap Blocked(t)
  /\ alive' = FALSE
  /\ count' = [count EXCEPT !.deliv = @ + 1]
  /\ last' = Step("forced", s, "none")
  /\ UNCHANGED <<disp, status, thr, stack, reg, sig_hup_mutex, inv, tmask, status_lock>>

(***************************************************************************)
(* signal_segfault: log, reset SIGABRT to its default, abort().            *)
(***************************************************************************)
segfault_log(t) ==
  /\ Running(t, "signal_segfault", "log")
  /\ stack' = SetTop(t, [Top(t) EXCEPT !.pc = "sigaction"])
  /\ last' = Step("segfault_log", Top(t).sig, "critical")
  /\ UNCHANGED <<disp, alive, status, thr, reg, sig_hup_mutex, inv, count, tmask, status_lock>>

(* A variant of the handler that leaves the disposition of SIGABRT alone. *)
segfault_sigaction_skip(t) ==
  /\ Running(t, "signal_segfault", "sigaction")
  /\ stack' = SetTop(t, [Top(t) EXCEPT !.pc = "abort"])
  /\ last' = Quiet
  /\ UNCHANGED <<disp, alive, status, thr, reg, sig_hup_mutex, inv, count, tmask, status_lock>>

segfault_sigaction(t) ==
  /\ Running(t, "signal_segfault", "sigaction")
  /\ disp' = [disp EXCEPT !["SIGABRT"] = clear]
  /\ stack' = SetTop(t, [Top(t) EXCEPT !.pc = "abort"])
  /\ last' = Quiet
  /\ UNCHANGED <<alive, status, thr, reg, sig_hup_mutex, inv, count, tmask, status_lock>>

(* abort() unblocks SIGABRT and raises it: under the default disposition  *)
(* (which abort() installs itself should the raise return or be ignored)   *)
(* the process terminates, under a handler the handler runs.               *)
segfault_abort(t) ==
  /\ Running(t, "signal_segfault", "abort")
  /\ IF disp["SIGABRT"].h \in {"SIG_DFL", "SIG_IGN"}
       THEN /\ alive' = FALSE
            /\ last' = Step("abort", "SIGABRT", "none")
            /\ UNCHANGED <<disp, stack>>
       ELSE /\ stack' = Push(t, Activation(disp["SIGABRT"].h, "SIGABRT"))
            /\ disp' = OnEntry(disp, "SIGABRT")
            /\ last' = Step("abort_handler", "SIGABRT", "none")
            /\ UNCHANGED alive
  /\ UNCHANGED <<status, thr, reg, sig_hup_mutex, inv, count, tmask, status_lock>>

(***************************************************************************)
(* signal_shutdown.                                                        *)
(***************************************************************************)
shutdown_log(t) ==
  /\ Running(t, "signal_shutdown", "log")
  /\ stack' = SetTop(t, [Top(t) EXCEPT !.pc = "launch"])
  /\ last' = Step("shutdown_log", Top(t).sig, "critical")
  /\ UNCHANGED <<disp, alive, status, thr, reg, sig_hup_mutex, inv, count, tmask, status_lock>>

(* The helper threads not created yet. *)
Unborn == {h \in Helpers : thr[h] = "unborn"}

(* mm_wipe(&status_thread); thread_launch(&status_thread, &status_signal, *)
(* NULL); nanosleep(&split): the new thread starts with the mask of its    *)
(* creator.                                                                *)
shutdown_launch(t) ==
  /\ Running(t, "signal_shutdown", "launch")
  /\ Unborn # {}
  /\ LET h == CHOOSE x \in Unborn : \A y \in Unborn : x[2] <= y[2] IN
       /\ thr' = [thr EXCEPT ![h] = "running"]
       /\ tmask' = [tmask EXCEPT ![h] = Blocked(t)]
       /\ stack' = SetTop(t, [Top(t) EXCEPT !.pc = "wake1", !.h = h])
  /\ last' = Quiet
  /\ UNCHANGED <<disp, alive, status, reg, sig_hup_mutex, inv, count, status_lock>>

(* status_signal, the start routine of the helper thread. Its status     *)
(* update is "queued and awaiting the lock": the helper waits until the    *)
(* lock is free and takes it.                                              *)
status_signal_lock(h) ==
  /\ alive
  /\ h \in Helpers
  /\ thr[h] = "running"
  /\ Depth(h) = 0
  /\ status_lock = NoThread
  /\ status_lock' = h
  /\ last' = Quiet
  /\ UNCHANGED <<disp, alive, status, thr, tmask, stack, reg, sig_hup_mutex, inv, count>>

(* Holding the lock, the helper sets the status flag, releases the lock   *)
(* and exits.                                                              *)
status_signal(h) ==
  /\ alive
  /\ h \in Helpers
  /\ thr[h] = "running"
  /\ Depth(h) = 0
  /\ status_lock = h
  /\ status' = "Draining"
  /\ status_lock' = NoThread
  /\ thr' = [thr EXCEPT ![h] = "exited"]
  /\ inv' = [inv EXCEPT ![h] = Append(@, "status")]
  /\ last' = Quiet
  /\ UNCHANGED <<disp, alive, tmask, stack, reg, sig_hup_mutex, count>>

(* queue_signal(), then the three nanosleep(&single). *)
shutdown_wake1(t) ==
  /\ Running(t, "signal_shutdown", "wake1")
  /\ stack' = SetTop(t, [Top(t) EXCEPT !.pc = "close"])
  /\ inv' = [inv EXCEPT ![Top(t).h] = Append(@, "wake")]
  /\ last' = Quiet
  /\ UNCHANGED <<disp, alive, status, thr, reg, sig_hup_mutex, count, tmask, status_lock>>

(* net_trigger(true). *)
shutdown_close(t) ==
  /\ Running(t, "signal_shutdown", "close")
  /\ stack' = SetTop(t, [Top(t) EXCEPT !.pc = "wake2"])
  /\ inv' = [inv EXCEPT ![Top(t).h] = Append(@, "close")]
  /\ last' = Quiet
  /\ UNCHANGED <<disp, alive, status, thr, reg, sig_hup_mutex, count, tmask, status_lock>>

(* The second queue_signal(). *)
shutdown_wake2(t) ==
  /\ Running(t, "signal_shutdown", "wake2")
  /\ stack' = SetTop(t, [Top(t) EXCEPT !.pc = "join"])
  /\ inv' = [inv EXCEPT ![Top(t).h] = Append(@, "wake")]
  /\ last' = Quiet
  /\ UNCHANGED <<disp, alive, status, thr, reg, sig_hup_mutex, count, tmask, status_lock>>

(* A variant of the handler that returns without joining its helper. *)
shutdown_join_nowait(t) ==
  /\ Running(t, "signal_shutdown", "join")
  /\ stack' = Pop(t)
  /\ last' = Quiet
  /\ UNCHANGED <<disp, alive, status, thr, reg, sig_hup_mutex, inv, count, tmask, status_lock>>

(* thread_join(status_thread) waits for the helper to exit; return. *)
shutdown_join(t) ==
  /\ Running(t, "signal_shutdown", "join")
  /\ thr[Top(t).h] = "exited"
  /\ thr' = [thr EXCEPT ![Top(t).h] = "joined"]
  /\ stack' = Pop(t)
  /\ inv' = [inv EXCEPT ![Top(t).h] = Append(@, "join")]
  /\ last' = Quiet
  /\ UNCHANGED <<disp, alive, status, reg, sig_hup_mutex, count, tmask, status_lock>>

(* status(): true while no shutdown is in progress. *)
status_is_running == status = "Running"

(* Variants of signal_status: one that logs whatever the status is, one   *)
(* that sets the status back to running.                                   *)
signal_status_always_logs(t) ==
  /\ Running(t, "signal_status", "status")
  /\ stack' = Pop(t)
  /\ last' = Step("signal_status", Top(t).sig, "info")
  /\ UNCHANGED <<disp, alive, status, thr, reg, sig_hup_mutex, inv, count, tmask, status_lock>>

signal_status_clears(t) ==
  /\ Running(t, "signal_status", "status")
  /\ stack' = Pop(t)
  /\ status' = "Running"
  /\ last' = Step("signal_status", Top(t).sig, IF status = "Running" THEN "info" ELSE "none")
  /\ UNCHANGED <<disp, alive, thr, reg, sig_hup_mutex, inv, count, tmask, status_lock>>

(***************************************************************************)
(* signal_status: if (status()) log_info(...); return.                     *)
(***************************************************************************)
signal_status(t) ==
  /\ Running(t, "signal_status", "status")
  /\ stack' = Pop(t)
  /\ last' = Step("signal_status", Top(t).sig, IF status_is_running THEN "info" ELSE "none")
  /\ UNCHANGED <<disp, alive, status, thr, reg, sig_hup_mutex, inv, count, tmask, status_lock>>

(* Variants of signal_refresh: one that does not wait for the mutex, one  *)
(* that returns from the failure branch without unlocking.                 *)
refresh_lock_nowait(t) ==
  /\ Running(t, "signal_refresh", "lock")
  /\ sig_hup_mutex' = t
  /\ stack' = SetTop(t, [Top(t) EXCEPT !.pc = "refresh", !.calls = @ + 1])
  /\ last' = Quiet
  /\ UNCHANGED <<disp, alive, status, thr, reg, inv, count, tmask, status_lock>>

refresh_return_bails(t, ok) ==
  /\ Running(t, "signal_refresh", "refresh")
  /\ stack' = IF ok THEN SetTop(t, [Top(t) EXCEPT !.pc = "unlock"]) ELSE Pop(t)
  /\ count' = [count EXCEPT !.failed = IF ok THEN @ ELSE @ + 1]
  /\ last' = Step("http_content_refresh", Top(t).sig, IF ok THEN "info" ELSE "error")
  /\ UNCHANGED <<disp, alive, status, thr, reg, sig_hup_mutex, inv, tmask, status_lock>>

(***************************************************************************)
(* signal_refresh.                                                         *)
(***************************************************************************)
(* mutex_lock(&sig_hup_mutex) returns once the mutex is free, and          *)
(* http_content_refresh() is entered.                                      *)
refresh_lock(t) ==
  /\ Running(t, "signal_refresh", "lock")
  /\ sig_hup_mutex = NoThread
  /\ sig_hup_mutex' = t
  /\ stack' = SetTop(t, [Top(t) EXCEPT !.pc = "refresh", !.calls = @ + 1])
  /\ last' = Quiet
  /\ UNCHANGED <<disp, alive, status, thr, reg, inv, count, tmask, status_lock>>

(* http_content_refresh() returns ok; its result is logged. *)
refresh_return(t, ok) ==
  /\ Running(t, "signal_refresh", "refresh")
  /\ stack' = SetTop(t, [Top(t) EXCEPT !.pc = "unlock"])
  /\ count' = [count EXCEPT !.failed = IF ok THEN @ ELSE @ + 1]
  /\ last' = Step("http_content_refresh", Top(t).sig, IF ok THEN "info" ELSE "error")
  /\ UNCHANGED <<disp, alive, status, thr, reg, sig_hup_mutex, inv, tmask, status_lock>>

(* A variant of the handler that returns without unlocking. *)
refresh_unlock_keeps(t) ==
  /\ Running(t, "signal_refresh", "unlock")
  /\ stack' = Pop(t)
  /\ last' = Quiet
  /\ UNCHANGED <<disp, alive, status, thr, reg, sig_hup_mutex, inv, count, tmask, status_lock>>

(* mutex_unlock(&sig_hup_mutex); return. *)
refresh_unlock(t) ==
  /\ Running(t, "signal_refresh", "unlock")
  /\ sig_hup_mutex' = NoThread
  /\ stack' = Pop(t)
  /\ last' = Quiet
  /\ UNCHANGED <<disp, alive, status, thr, reg, inv, count, tmask, status_lock>>

(***************************************************************************)
(* The specification.                                                      *)
(***************************************************************************)
Next ==
  \/ \E ok \in BOOLEAN : signal_start(ok)
  \/ \E w \in Workers : worker_start(w)
  \/ \E t \in Workers, okEmpty, okAction \in BOOLEAN : signal_thread_start(t, okEmpty, okAction)
  \/ \E t \in Threads, s \in Signals : DeliverIgnored(t, s)
  \/ \E t \in Threads, s \in Signals : DeliverDefault(t, s)
  \/ \E t \in Threads, s \in Signals : DeliverHandler(t, s)
  \/ \E t \in Threads, s \in Signals : ForcedFault(t, s)
  \/ \E t \in Threads : segfault_log(t)
  \/ \E t \in Threads : segfault_sigaction(t)
  \/ \E t \in Threads : segfault_abort(t)
  \/ \E t \in Threads : shutdown_log(t)
  \/ \E t \in Threads : shutdown_launch(t)
  \/ \E h \in Helpers : status_signal_lock(h)
  \/ \E h \in Helpers : status_signal(h)
  \/ \E t \in Threads : shutdown_wake1(t)
  \/ \E t \in Threads : shutdown_close(t)
  \/ \E t \in Threads : shutdown_wake2(t)
  \/ \E t \in Threads : shutdown_join(t)
  \/ \E t \in Threads : signal_status(t)
  \/ \E t \in Threads : refresh_lock(t)
  \/ \E t \in Threads, ok \in BOOLEAN : refresh_return(t, ok)
  \/ \E t \in Threads : refresh_unlock(t)

Spec == Init /\ [][Next]_vars

(* The steps of the program itself: every step but the delivery of a      *)
(* signal and the start of a worker.                                       *)
Progress ==
  \/ \E ok \in BOOLEAN : signal_start(ok)
  \/ \E t \in Workers, okEmpty, okAction \in BOOLEAN : signal_thread_start(t, okEmpty, okAction)
  \/ \E t \in Threads : segfault_log(t)
  \/ \E t \in Threads : segfault_sigaction(t)
  \/ \E t \in Threads : segfault_abort(t)
  \/ \E t \in Threads : shutdown_log(t)
  \/ \E t \in Threads : shutdown_launch(t)
  \/ \E h \in Helpers : status_signal_lock(h)
  \/ \E h \in Helpers : status_signal(h)
  \/ \E t \in Threads : shutdown_wake1(t)
  \/ \E t \in Threads : shutdown_close(t)
  \/ \E t \in Threads : shutdown_wake2(t)
  \/ \E t \in Threads : shutdown_join(t)
  \/ \E t \in Threads : signal_status(t)
  \/ \E t \in Threads : refresh_lock(t)
  \/ \E t \in Threads, ok \in BOOLEAN : refresh_return(t, ok)
  \/ \E t \in Threads : refresh_unlock(t)

(* Fair scheduling: a thread that can take a step is not held back for    *)
(* ever. Deliveries are bounded, so no thread steps for ever and weak      *)
(* fairness of the steps together gives every thread its turn.             *)
FairSpec == Spec /\ WF_vars(Progress)

(***************************************************************************)
(* Properties.                                                             *)
(***************************************************************************)
(* The activations in progress: <<t, i>> is the i-th handler on t's stack. *)
Activations == {a \in Threads \X (1..(MaxDeliveries + 1)) : a[2] <= Depth(a[1])}

Act(a) == stack[a[1]][a[2]]

Crashes(s) == {a \in Activations : Act(a).fn = "signal_segfault" /\ Act(a).sig = s}

Reloads == {a \in Activations : Act(a).fn = "signal_refresh"}

(* The steps that deliver a signal. *)
DeliveryOps == {"ignored", "default", "handler", "forced"}

IsPrefix(a, b) == Len(a) <= Len(b) /\ a = SubSeq(b, 1, Len(a))

(* t returns from an activation of the handler fn. *)
Returns(t, fn) ==
  /\ Depth(t) > 0
  /\ Top(t).fn = fn
  /\ stack'[t] = SubSeq(stack[t], 1, Depth(t) - 1)

(* C1: the events of a shutdown occur in the order: the status becomes    *)
(* Draining, the first wake broadcast, the forced close, the second wake   *)
(* broadcast, the join of the helper; no pair is reordered.                *)
C1_ShutdownOrder ==
  \A h \in Helpers : IsPrefix(inv[h], <<"status", "wake", "close", "wake", "join">>)

Rank(st) == CASE st = "Running" -> 0 [] st = "Draining" -> 1 [] st = "Stopped" -> 2

(* C2: the status never moves backward, whatever signals are delivered,   *)
(* and it is written only by the helper thread of a shutdown.              *)
C2_StatusMonotonic ==
  [][ /\ Rank(status') >= Rank(status)
      /\ status' # status =>
           \E h \in Helpers : thr[h] = "running" /\ thr'[h] = "exited" ]_vars

(* A wake signal has been handled after the status became Draining. *)
C2_Witness == status = "Draining" /\ last.op = "signal_status"

(* C3: at most one call of http_content_refresh is in flight, its caller  *)
(* holds sig_hup_mutex, and every activation of the reload handler that    *)
(* has passed the lock has made exactly one call, which no later SIGHUP    *)
(* on its thread interrupts with another.                                  *)
C3_ReloadSerialized ==
  /\ Cardinality({a \in Reloads : Act(a).pc = "refresh"}) <= 1
  /\ \A a \in Reloads :
       /\ Act(a).calls = IF Act(a).pc = "lock" THEN 0 ELSE 1
       /\ Act(a).pc # "lock" => sig_hup_mutex = a[1]
       /\ \A b \in Reloads : b[1] = a[1] => b = a

(* Two reload handlers run on different threads: one is refreshing, the   *)
(* other waits for the mutex.                                              *)
C3_Witness ==
  \E a, b \in Reloads :
    /\ a[1] # b[1]
    /\ Act(a).pc = "refresh"
    /\ Act(b).pc = "lock"

(* C4: after bootstrap, while the crash handler runs for a fatal signal,  *)
(* that signal has the default disposition, and no second activation of    *)
(* the crash handler for it exists.                                        *)
C4_NoRecursiveCrash ==
  reg[Main].ret = "true" =>
    \A s \in Fatal :
      Crashes(s) # {} => disp[s].h = "SIG_DFL" /\ Cardinality(Crashes(s)) = 1

(* A fatal signal was raised again while the crash handler ran for it,    *)
(* and the default disposition terminated the process.                     *)
C4_Witness ==
  /\ reg[Main].ret = "true"
  /\ last.op \in {"default", "forced"}
  /\ Crashes(last.sig) # {}
  /\ ~alive

(* C5: the crash handler reaches abort() with SIGABRT at its default      *)
(* disposition, abort() terminates the process without running a handler,  *)
(* and no activation of the crash handler ever returns.                    *)
C5_CrashNeverReturns ==
  [][ /\ \A a \in Activations' :
           (Act(a).fn = "signal_segfault" /\ Act(a).pc = "abort")' =>
             disp'["SIGABRT"].h = "SIG_DFL"
      /\ last'.op # "abort_handler"
      /\ last'.op = "abort" => ~alive'
      /\ \A a \in Activations :
           Act(a).fn = "signal_segfault" =>
             a \in Activations' /\ (Act(a).fn)' = "signal_segfault" ]_vars

(* abort() has terminated the process from the crash handler of SIGABRT. *)
C5_Witness ==
  /\ last.op = "abort"
  /\ ~alive
  /\ Crashes("SIGABRT") # {}

(* A registration function evaluates its n calls in order and stops at    *)
(* the first that fails: it returns true if and only if all n succeeded.   *)
ShortCircuit(r, n) ==
  /\ Len(r.made) <= n
  /\ \A i \in 1..(Len(r.made) - 1) : r.made[i]
  /\ r.ret = "true" <=> (Len(r.made) = n /\ \A i \in 1..n : r.made[i])
  /\ r.ret = "false" <=> (Len(r.made) > 0 /\ ~r.made[Len(r.made)])

(* C6: signal_start returns true if and only if each of its fourteen      *)
(* registration calls succeeded, returns false at the first that fails and *)
(* attempts none after it; signal_thread_start does the same with its two. *)
C6_BootstrapReporting ==
  /\ Len(StartCalls) = 14
  /\ ShortCircuit(reg[Main], Len(StartCalls))
  /\ \A w \in Workers : ShortCircuit(reg[w], 2)

(* signal_start has returned false at sigaction(SIGSEGV). *)
C6_Witness ==
  /\ reg[Main].ret = "false"
  /\ StartCalls[Len(reg[Main].made)].sig = "SIGSEGV"

(* The table the claim states. *)
ClaimedTable(s) ==
  CASE s \in Termination -> [h |-> "signal_shutdown", oneshot |-> FALSE, mask |-> {}]
    [] s \in Fatal -> [h |-> "signal_segfault", oneshot |-> TRUE, mask |-> {}]
    [] s = "SIGHUP" -> [h |-> "signal_refresh", oneshot |-> FALSE, mask |-> {}]
    [] s = "SIGPIPE" -> [h |-> "SIG_IGN", oneshot |-> FALSE, mask |-> {}]

C8_SigpipeNeverTerminates ==
  (last.op \in DeliveryOps /\ last.sig = "SIGPIPE") =>
    (alive /\ last.op = "ignored" /\ last.log = "none")

(* sigaction(SIGPIPE) of signal_start has succeeded. *)
PipeInstalled ==
  \E i \in 1..Len(reg[Main].made) : StartCalls[i].sig = "SIGPIPE" /\ reg[Main].made[i]

(* C8, amended: once signal_start has installed the disposition of        *)
(* SIGPIPE, SIGPIPE is ignored for good and no delivery of it terminates   *)
(* the process or logs.                                                    *)
C8_SigpipeIgnoredOnceInstalled ==
  PipeInstalled =>
    /\ disp["SIGPIPE"].h = "SIG_IGN"
    /\ (last.op \in DeliveryOps /\ last.sig = "SIGPIPE") =>
         (alive /\ last.op = "ignored" /\ last.log = "none")

(* SIGPIPE has been delivered twice and ignored. *)
C8_Witness ==
  /\ last.op = "ignored"
  /\ last.sig = "SIGPIPE"
  /\ count.deliv = 2
  /\ alive

(* C9, as stated: an activation of signal_status logs one informational   *)
(* line if the status was Running when the signal was delivered, and       *)
(* nothing if it was Draining.                                             *)
C9_WakeLogsByStatusAtDelivery ==
  [][ \A t \in Threads :
        Returns(t, "signal_status") =>
          /\ last'.log = IF Top(t).at = "Running" THEN "info" ELSE "none"
          /\ status' = status
          /\ alive' ]_vars

(* C9, amended: an activation of signal_status logs one informational     *)
(* line if status() finds the status Running when the handler calls it,    *)
(* and nothing otherwise, which covers every delivery made while the       *)
(* status is Draining; it changes neither the status nor any thread, and   *)
(* it returns.                                                             *)
C9_WakeLogsByStatusRead ==
  [][ \A t \in Threads :
        Returns(t, "signal_status") =>
          /\ last'.log = IF status = "Running" THEN "info" ELSE "none"
          /\ Top(t).at = "Draining" => last'.log = "none"
          /\ status' = status
          /\ thr' = thr
          /\ alive' ]_vars

(* signal_status has logged its line. *)
C9_Witness == last.op = "signal_status" /\ last.log = "info" /\ alive

(* http_content_refresh returns false to t. *)
RefreshFails(t) ==
  /\ Depth(t) > 0
  /\ Top(t).fn = "signal_refresh"
  /\ Top(t).pc = "refresh"
  /\ count'.failed = count.failed + 1
  /\ stack'[t] # stack[t]

(* C10: when http_content_refresh fails, the reload handler logs an       *)
(* error and goes on to unlock; the unlock releases the mutex on either    *)
(* path; neither step changes the status or ends the process; and the      *)
(* mutex is held only by a thread inside the reload handler, so a later    *)
(* SIGHUP acquires it.                                                     *)
C10_ReloadFailureNonFatal ==
  [][ /\ \A t \in Threads :
           /\ RefreshFails(t) =>
                /\ last'.log = "error"
                /\ Depth(t)' = Depth(t)
                /\ Top(t)'.pc = "unlock"
                /\ sig_hup_mutex' = t
                /\ status' = status
                /\ alive'
           /\ Returns(t, "signal_refresh") =>
                /\ sig_hup_mutex' = NoThread
                /\ status' = status
                /\ alive'
      /\ sig_hup_mutex' # NoThread =>
           \E a \in Reloads' : a[1] = sig_hup_mutex' /\ (Act(a).pc)' \in {"refresh", "unlock"} ]_vars

(* After a failed refresh whose handler has returned, a later SIGHUP has  *)
(* acquired the mutex and is refreshing again.                             *)
C10_Witness ==
  /\ count.failed = 1
  /\ Cardinality(Reloads) = 1
  /\ \E a \in Reloads : Act(a).pc = "refresh" /\ sig_hup_mutex = a[1]
  /\ alive

(* C11, as stated: once signal_start has returned true, no step changes  *)
(* the disposition of any signal.                                          *)
C11_TableFrozen ==
  [][ reg[Main].ret = "true" => disp' = disp ]_vars

(* t executes the sigaction(SIGABRT, &clear, NULL) of the crash handler. *)
ClearsAbort(t) ==
  /\ Depth(t) > 0
  /\ Top(t).fn = "signal_segfault"
  /\ Top(t).pc = "sigaction"
  /\ stack'[t] # stack[t]

(* C11, amended: once signal_start has returned true, the dispositions of *)
(* the termination signals, SIGPIPE and SIGHUP never change; the table     *)
(* changes in three ways only: signal_thread_start binds SIGALRM to        *)
(* signal_status, the entry to the crash handler returns the delivered     *)
(* fatal signal to its default (SA_RESETHAND), and the crash handler       *)
(* returns SIGABRT to its default before abort().                          *)
C11_TableChanges ==
  [][ reg[Main].ret = "true" =>
        \A s \in Signals :
          disp'[s] # disp[s] =>
            \/ /\ s = "SIGALRM"
               /\ disp'[s] = status_action
               /\ last'.op = "signal_thread_start"
            \/ /\ s \in Fatal
               /\ disp[s] = segfault
               /\ disp'[s] = SigDfl
               /\ last'.op = "handler"
               /\ last'.sig = s
            \/ /\ s = "SIGABRT"
               /\ disp'[s] = clear
               /\ \E t \in Threads : ClearsAbort(t) ]_vars

(* After a successful bootstrap all three changes have happened: SIGALRM  *)
(* is bound, and a crash handler entered for SIGSEGV has reset SIGABRT.    *)
C11_Witness ==
  /\ reg[Main].ret = "true"
  /\ disp["SIGALRM"] = status_action
  /\ disp["SIGSEGV"] = SigDfl
  /\ disp["SIGABRT"] = clear
  /\ \E a \in Crashes("SIGSEGV") : Act(a).pc = "abort"

(* The activations of the crash handler nested on the thread t. *)
CrashDepth(t) == Cardinality({i \in 1..Depth(t) : stack[t][i].fn = "signal_segfault"})

(* C12, as stated: no thread runs the crash handler nested inside the     *)
(* crash handler, whichever fatal signals are delivered.                   *)
C12_NoNestedCrash == \A t \in Threads : CrashDepth(t) <= 1

(* t enters the crash handler. *)
EntersCrash(t) ==
  /\ Depth(t)' = Depth(t) + 1
  /\ Top(t)'.fn = "signal_segfault"

(* C12, amended: the crash handler is entered for a fatal signal only     *)
(* while no activation of it for that signal exists, and the entry returns *)
(* that signal to its default; a different fatal signal, whose one-shot    *)
(* disposition is not used up, does start a nested activation, so the      *)
(* activations nested on a thread are for pairwise different signals.      *)
C12_CrashNestsOncePerSignal ==
  [][ \A t \in Threads :
        /\ EntersCrash(t) =>
             /\ Top(t)'.sig \in Fatal
             /\ Crashes(Top(t)'.sig) = {}
             /\ disp[Top(t)'.sig] = segfault
             /\ disp'[Top(t)'.sig] = SigDfl
        /\ \A i, j \in 1..Depth(t)' :
             (/\ i < j
              /\ stack'[t][i].fn = "signal_segfault"
              /\ stack'[t][j].fn = "signal_segfault") => stack'[t][i].sig # stack'[t][j].sig ]_vars

(* A thread runs the crash handler nested inside the crash handler. *)
C12_Witness == \E t \in Threads : CrashDepth(t) = 2

(* C13: whenever a shutdown handler launches its helper thread, the       *)
(* status is already Draining.                                             *)
C13_DrainingAtLaunch ==
  [][ \A h \in Helpers :
        (thr[h] = "unborn" /\ thr'[h] = "running") => status = "Draining" ]_vars

(* The activations of the shutdown handler in progress. *)
Shutdowns == {a \in Activations : Act(a).fn = "signal_shutdown"}

(* Every shutdown begun has closed the connections, joined its helper and *)
(* returned.                                                               *)
ShutdownsDone ==
  /\ Shutdowns = {}
  /\ \A h \in Helpers :
       thr[h] # "unborn" => thr[h] = "joined" /\ \E i \in 1..Len(inv[h]) : inv[h][i] = "close"

(* C14: under fair scheduling every invocation of the shutdown handler    *)
(* calls the forced close, joins its helper and returns, unless the        *)
(* process is terminated first; invocations being finitely many, from some *)
(* point on none is in progress.                                           *)
C14_ShutdownProgress == <>[](~alive \/ ShutdownsDone)

(* The helpers whose shutdown has recorded the event e. *)
Recorded(e) == {h \in Helpers : \E i \in 1..Len(inv[h]) : inv[h][i] = e}

(* C15: the forced close (net_trigger) is invoked at most once, however   *)
(* many termination signals are delivered.                                 *)
C15_CloseOnce == Cardinality(Recorded("close")) <= 1

(* The activations of the shutdown handler that own the helper h. *)
Owner(h) == {a \in Shutdowns : Act(a).h = h}

(* C16: a shutdown handler returns only by joining the helper it          *)
(* launched, which has exited; a helper is joined only by the return of    *)
(* the activation that launched it, and once; every helper launched and    *)
(* not yet joined is owned by exactly one activation, and no activation    *)
(* owns a helper not launched or already joined.                           *)
C16_HelperOwnership ==
  [][ /\ \A t \in Threads :
           Returns(t, "signal_shutdown") =>
             /\ Top(t).h \in Helpers
             /\ thr[Top(t).h] = "exited"
             /\ thr'[Top(t).h] = "joined"
      /\ \A h \in Helpers :
           /\ (thr[h] # "joined" /\ thr'[h] = "joined") =>
                \E t \in Threads : Returns(t, "signal_shutdown") /\ Top(t).h = h
           /\ thr[h] = "joined" => thr'[h] = "joined"
           /\ thr'[h] \in {"running", "exited"} => Cardinality(Owner(h)') = 1
           /\ thr'[h] \in {"unborn", "joined"} => Owner(h)' = {}
           /\ Cardinality({i \in 1..Len(inv'[h]) : inv'[h][i] = "join"}) <= 1 ]_vars

(* Two shutdown handlers have run, and each has joined its own helper. *)
C16_Witness ==
  /\ \A h \in Helpers : thr[h] = "joined"
  /\ Recorded("join") = Helpers
  /\ alive

(* C17: the write that publishes Draining is performed at most once over  *)
(* the life of the process.                                                *)
C17_WrittenOnce == Cardinality(Recorded("status")) <= 1

(* No thread waits for sig_hup_mutex while holding it. *)
NoSelfRequest == \A a \in Reloads : Act(a).pc = "lock" => sig_hup_mutex # a[1]

(* A handler is nested inside an activation of the reload handler. *)
NestedInReload == \E a \in Reloads : Depth(a[1]) > a[2]

InstallOrder ==
  <<"SIGINT", "SIGQUIT", "SIGTERM", "SIGPIPE", "SIGSEGV", "SIGFPE", "SIGBUS", "SIGSYS",
    "SIGABRT", "SIGHUP">>

(* The calls of sigaction that signal_start has made with success. *)
Installs ==
  Cardinality({i \in 1..Len(reg[Main].made) :
                 reg[Main].made[i] /\ StartCalls[i].fn = "sigaction"})

(* C19: when signal_start has returned false, the first signals of the    *)
(* installation order, as many as calls of sigaction succeeded, have the   *)
(* dispositions of the bootstrap, and every later one, and SIGALRM, has    *)
(* the disposition it had before: nothing is rolled back and the installed *)
(* set is a prefix of the order.                                           *)
C19_NoRollback ==
  reg[Main].ret = "false" =>
    /\ Installs < Len(InstallOrder)
    /\ \A i \in 1..Len(InstallOrder) :
         disp[InstallOrder[i]] =
           IF i <= Installs THEN ClaimedTable(InstallOrder[i]) ELSE SigDfl
    /\ disp["SIGALRM"] = SigDfl

(* signal_start has returned false at sigaction(SIGBUS): SIGFPE is        *)
(* installed, SIGBUS is not.                                               *)
C19_Witness ==
  /\ reg[Main].ret = "false"
  /\ Installs = 6
  /\ disp["SIGFPE"] = segfault
  /\ disp["SIGBUS"] = SigDfl

(* A thread has called signal_thread_start with success. *)
WakeBound == \E t \in Workers : reg[t].ret = "true"

(* The signal s is delivered. *)
Delivered(s) == count'.deliv = count.deliv + 1 /\ last'.sig = s

====
